---- MODULE Spec2Model ----
(***************************************************************************)
(* Model of the Teams channel exporter.                                    *)
(*                                                                         *)
(*   teams_exporter.py : export_messages, fetch_message_replies,           *)
(*                       convert_thread_to_markdown, strip_html,           *)
(*                       format_datetime                                   *)
(*   create_threads.py : build_thread_tree, format_thread, format_message, *)
(*                       parse_html_content                                *)
(*                                                                         *)
(* Spec        : one run of export_messages against a server whose         *)
(*               responses are chosen nondeterministically; one step is    *)
(*               one HTTP request together with everything the code does   *)
(*               until the next request (or until it returns).             *)
(* SpecThreads : the pure functions of create_threads.py and               *)
(*               convert_thread_to_markdown applied to bounded inputs.     *)
(* SpecRender  : format_message and the head of convert_thread_to_markdown *)
(*               applied to one message whose fields are absent, null,     *)
(*               empty or present.                                         *)
(***************************************************************************)
EXTENDS Integers, Sequences, FiniteSets, TLC

VARIABLES
    \* ---- export_messages: inputs
    max_messages,            \* cap or None
    fetch_replies,           \* BOOLEAN
    max_replies_per_message, \* cap or None
    \* ---- export_messages: locals
    pc,                      \* "fetch" | "replies" | "done" | "failed"
    url,                     \* channel cursor: number of the page to request, 0 = no link
    page,                    \* the counter "page"
    messages,                \* accumulator of channel items
    thread_files,            \* generated document names, in write order
    total_replies,
    batch,                   \* items of the page being processed
    next_link,               \* next link of the page being processed, 0 = none
    idx,                     \* position in batch of the message whose replies are fetched
    \* ---- fetch_message_replies: locals
    rurl,                    \* reply cursor, 0 = no link
    replies,                 \* accumulator of reply items
    \* ---- the export folder
    disk,                    \* message id -> reply list rendered into thread_<id>.md
    metadata,                \* the records written to _metadata.json, in write order
    \* ---- the server and the history of the run
    served,                  \* channel items handed out in 200 responses so far
    rserved,                 \* reply items of the current message handed out so far
    last,                    \* the latest request and the response to it
    okPages,                 \* number of 200 responses to channel page requests
    \* ---- create_threads / convert_thread_to_markdown
    tmsgs,                   \* flat input message list
    tpc,                     \* "idle" | "input" | "built" | "rendered" | "rendered2" |
                             \* "converted" | "converted2"
    root_messages,           \* build_thread_tree: roots, as positions of tmsgs
    replies_by_parent,       \* build_thread_tree: parent id -> positions of tmsgs
    threads,                 \* main: format_thread of every root, in output order
    markdown,                \* convert_thread_to_markdown: the reply sections, in output order
    \* ---- rendering of one message
    rmsg,                    \* the message (a JSON object of the Graph API)
    rpc,                     \* "idle" | "input" | "formatted" | "converted"
    rout                     \* what the renderer gave: its output, or raised

evars == <<max_messages, fetch_replies, max_replies_per_message, pc, url, page,
           messages, thread_files, total_replies, batch, next_link, idx, rurl,
           replies,
disk, metadata, served, rserved, last, okPages>>
tvars == <<tmsgs, tpc, root_messages, replies_by_parent, threads, markdown>>
rvars == <<rmsg, rpc, rout>>
vars  == <<evars, tvars, rvars>>

----------------------------------------------------------------------------
\* Bounds
MaxPages   == 2    \* pages of one collection (channel or replies)
MaxItems   == 2    \* items of the channel collection, and largest max_messages
MaxReplies == 2    \* items of one reply collection, and largest max_replies_per_message
MaxRetries == 2    \* 429 responses to channel page requests in one run
MaxMsgs    == 3    \* messages in the flat input list
MaxBodyLen == 2    \* tokens of a message body

----------------------------------------------------------------------------
\* Python values

\* the value None of an optional cap
None == -1

\* truth value of an optional integer: None and 0 are false
Truthy(x) == x # None /\ x # 0

\* status codes the server answers with besides 200, 404 and 429
OtherStatuses == {401, 500}

\* data.get("value", []) of a page carrying n items: the server numbers the
\* items of a collection in the order it hands them out
Value(sofar, n) == [i \in 1..n |-> sofar + i]

\* data.get("@odata.nextLink") of the page at cursor cur
NextLink(cur, link) == IF link THEN cur + 1 ELSE 0

\* mutant: the cap must be exceeded, not reached
LimitReached_exceeded(acc, cap) == Truthy(cap) /\ Len(acc) > cap

\* "if max and len(acc) >= max"
LimitReached(acc, cap) == Truthy(cap) /\ Len(acc) >= cap

\* acc[:cap]
Truncate(acc, cap) == SubSeq(acc, 1, IF cap < Len(acc) THEN cap ELSE Len(acc))

\* a request (kind, parent message, cursor) and the response to it: status
\* (0 = RequestException), number of items and presence of a next link
Request(kind, msg, cursor, status, n, link) ==
    [kind |-> kind, msg |-> msg, cursor |-> cursor, status |-> status,
     n |-> n, link |-> link]

----------------------------------------------------------------------------
\* create_threads is idle while export_messages runs
ThreadsIdle ==
    /\ tmsgs = <<>> /\ tpc = "idle" /\ root_messages = <<>>
    /\ replies_by_parent = <<>> /\ threads = <<>> /\ markdown = <<>>

RenderIdle == rmsg = <<>> /\ rpc = "idle" /\ rout = <<>>

Init ==
    /\ max_messages \in {None} \cup 0..MaxItems
    /\ fetch_replies \in BOOLEAN
    /\ max_replies_per_message \in {None} \cup 0..MaxReplies
    /\ pc = "fetch"
    /\ url = 1
    /\ page = 0
    /\ messages = <<>>
    /\ thread_files = <<>>
    /\ total_replies = 0
    /\ batch = <<>>
    /\ next_link = 0
    /\ idx = 0
    /\ rurl = 0
    /\ replies = <<>>
    /\ disk = <<>>
    /\ metadata = <<>>
    /\ served = 0
    /\ rserved = 0
    /\ last = Request("none", 0, 0, 0, 0, FALSE)
    /\ okPages = 0
    /\ ThreadsIdle
    /\ RenderIdle

----------------------------------------------------------------------------
\* export_messages / fetch_message_replies

Inputs == <<max_messages, fetch_replies, max_replies_per_message>>

\* the metadata record
MetadataRecord(msgs, tf, tr, pg) ==
    [message_count |-> Len(msgs), reply_count |-> tr, pages_fetched |-> pg,
     fetch_replies |-> fetch_replies, thread_files |-> tf]

\* mutant: the folder is returned without the index being written
WriteMetadata_skipped(msgs, tf, tr, pg) ==
    /\ metadata' = metadata
    /\ pc' = "done"

\* the write of _metadata.json after the loop; the function returns the folder
WriteMetadata(msgs, tf, tr, pg) ==
    /\ metadata' = Append(metadata, MetadataRecord(msgs, tf, tr, pg))
    /\ pc' = "done"

\* mutant: the index is written inside the loop, after every page
EndOfPage_indexPerPage(b, nxt, tf, tr, pg) ==
    LET acc == messages \o b
        stop == LimitReached(acc, max_messages)
        kept == IF stop THEN Truncate(acc, max_messages) ELSE acc
    IN  /\ messages' = kept
        /\ url' = IF stop THEN url ELSE nxt
        /\ metadata' = Append(metadata, MetadataRecord(kept, tf, tr, pg))
        /\ pc' = IF stop \/ nxt = 0 THEN "done" ELSE "fetch"

\* messages.extend(batch), the limit check, the next link and the loop test
EndOfPage(b, nxt, tf, tr, pg) ==
    LET acc == messages \o b
    IN  IF LimitReached(acc, max_messages)
        THEN /\ messages' = Truncate(acc, max_messages)
             /\ url' = url
             /\ WriteMetadata(Truncate(acc, max_messages), tf, tr, pg)
        ELSE /\ messages' = acc
             /\ url' = nxt
             /\ IF nxt = 0
                THEN WriteMetadata(acc, tf, tr, pg)
                ELSE pc' = "fetch" /\ metadata' = metadata

\* entry of fetch_message_replies for the i-th message of the batch
StartReplyFetch(i) ==
    /\ idx' = i
    /\ replies' = <<>>
    /\ rurl' = 1
    /\ rserved' = 0

\* fetch_message_replies has returned rs (its cursor being cur): the document
\* of the message is written, then the next message or the end of the page
AfterReplies(rs, cur) ==
    LET id == batch[idx]
        tf == Append(thread_files, id)
        tr == total_replies + Len(rs)
    IN  /\ disk' = (id :> rs) @@ disk
        /\ thread_files' = tf
        /\ total_replies' = tr
        /\ UNCHANGED <<batch, next_link>>
        /\ IF idx < Len(batch)
           THEN /\ StartReplyFetch(idx + 1)
                /\ pc' = "replies"
                /\ UNCHANGED <<messages, url, metadata>>
           ELSE /\ EndOfPage(batch, next_link, tf, tr, page)
                /\ replies' = rs
                /\ rurl' = cur
                /\ UNCHANGED <<idx, rserved>>

\* mutant: the retry moves on to the following page
ChannelRateLimited_advance ==
    /\ pc = "fetch"
    /\ page - okPages < MaxRetries
    /\ page' = page + 1
    /\ url' = IF url < MaxPages THEN url + 1 ELSE url
    /\ last' = Request("channel", 0, url, 429, 0, FALSE)
    /\ UNCHANGED <<Inputs, pc, messages, thread_files, total_replies, batch,
                   next_link, idx, rurl, replies, disk, metadata, served,
                   rserved, okPages>>

\* channel page request answered 429: sleep, continue
ChannelRateLimited ==
    /\ pc = "fetch"
    /\ page - okPages < MaxRetries
    /\ page' = page + 1
    /\ last' = Request("channel", 0, url, 429, 0, FALSE)
    /\ UNCHANGED <<Inputs, pc, url, messages, thread_files, total_replies, batch,
                   next_link, idx, rurl, replies, disk, metadata, served, rserved, okPages>>

\* mutant: a failed channel page request leaves the loop and the index is written
ChannelAbort_break(status) ==
    /\ page' = page + 1
    /\ last' = Request("channel", 0, url, status, 0, FALSE)
    /\ WriteMetadata(messages, thread_files, total_replies, page + 1)
    /\ UNCHANGED <<Inputs, url, messages, thread_files, total_replies, batch,
                   next_link, idx, rurl, replies, disk, served, rserved, okPages>>

\* mutant: a failed channel page request empties the export folder
ChannelAbort_cleanup(status) ==
    /\ page' = page + 1
    /\ last' = Request("channel", 0, url, status, 0, FALSE)
    /\ pc' = "failed"
    /\ disk' = <<>>
    /\ UNCHANGED <<Inputs, url, messages, thread_files, total_replies, batch,
                   next_link, idx, rurl, replies, metadata, served, rserved,
                   okPages>>

\* what a channel page request that fails leaves behind: return None
ChannelAbort(status) ==
    /\ page' = page + 1
    /\ last' = Request("channel", 0, url, status, 0, FALSE)
    /\ pc' = "failed"
    /\ UNCHANGED <<Inputs, url, messages, thread_files, total_replies, batch,
                   next_link, idx, rurl, replies, disk, metadata, served, rserved, okPages>>

\* channel page request answered with a status other than 200 and 429
ChannelError ==
    /\ pc = "fetch"
    /\ \E s \in OtherStatuses \cup {404} : ChannelAbort(s)

\* channel page request raised RequestException
ChannelNetworkError ==
    /\ pc = "fetch"
    /\ ChannelAbort(0)

\* channel page request answered 200 with n items and, if link, a next link
ChannelOK ==
    /\ pc = "fetch"
    /\ \E n \in 0..(MaxItems - served), link \in BOOLEAN :
        /\ link => url < MaxPages
        /\ page' = page + 1
        /\ okPages' = okPages + 1
        /\ served' = served + n
        /\ last' = Request("channel", 0, url, 200, n, link)
        /\ LET b == Value(served, n)
               nxt == NextLink(url, link)
           IN  /\ batch' = b
               /\ next_link' = nxt
               /\ IF fetch_replies /\ Len(b) > 0
                  THEN /\ StartReplyFetch(1)
                       /\ pc' = "replies"
                       /\ UNCHANGED <<messages, url, thread_files, total_replies,
                                      disk, metadata>>
                  ELSE LET written == IF fetch_replies THEN {}
                                      ELSE {b[i] : i \in 1..Len(b)}
                           tf == IF fetch_replies THEN thread_files
                                 ELSE thread_files \o b
                       IN  /\ disk' = [m \in written |-> <<>>] @@ disk
                           /\ thread_files' = tf
                           /\ EndOfPage(b, nxt, tf, total_replies, page + 1)
                           /\ UNCHANGED <<total_replies, idx, rurl, replies,
                                          rserved>>
    /\ UNCHANGED Inputs

\* reply request answered 429: sleep, continue
ReplyRateLimited ==
    /\ pc = "replies"
    /\ last' = Request("reply", batch[idx], rurl, 429, 0, FALSE)
    /\ UNCHANGED <<Inputs, pc, url, page, messages, thread_files, total_replies,
                   batch, next_link, idx, rurl, replies, disk, metadata, served,
                   rserved, okPages>>

\* what a reply request that fails leaves behind: return []
ReplyEmpty(status) ==
    /\ last' = Request("reply", batch[idx], rurl, status, 0, FALSE)
    /\ AfterReplies(<<>>, rurl)
    /\ UNCHANGED <<Inputs, page, served, okPages>>

\* mutants: the failure of a reply request ends the run
ReplyRaises(status) ==
    /\ last' = Request("reply", batch[idx], rurl, status, 0, FALSE)
    /\ pc' = "failed"
    /\ UNCHANGED <<Inputs, url, page, messages, thread_files, total_replies,
                   batch, next_link, idx, rurl, replies, disk, metadata, served,
                   rserved, okPages>>

Reply404_raises ==
    /\ pc = "replies"
    /\ ReplyRaises(404)

ReplyError_raises ==
    /\ pc = "replies"
    /\ \E s \in OtherStatuses : ReplyRaises(s)

\* reply request answered 404
Reply404 ==
    /\ pc = "replies"
    /\ ReplyEmpty(404)

\* reply request answered with a status other than 200, 404 and 429
ReplyError ==
    /\ pc = "replies"
    /\ \E s \in OtherStatuses : ReplyEmpty(s)

\* reply request raised RequestException
ReplyNetworkError ==
    /\ pc = "replies"
    /\ ReplyEmpty(0)

\* mutant: the next link of a reply page leads back to the first page
ReplyOK_linkBack ==
    /\ pc = "replies"
    /\ \E n \in 0..(MaxReplies - rserved), link \in BOOLEAN :
        /\ last' = Request("reply", batch[idx], rurl, 200, n, link)
        /\ LET acc == replies \o Value(rserved, n)
           IN  IF LimitReached(acc, max_replies_per_message)
               THEN AfterReplies(Truncate(acc, max_replies_per_message), rurl)
               ELSE IF ~link
                    THEN AfterReplies(acc, 0)
                    ELSE /\ replies' = acc
                         /\ rurl' = 1
                         /\ rserved' = rserved + n
                         /\ UNCHANGED <<pc, url, messages, thread_files,
                                        total_replies, batch, next_link, idx,
                                        disk, metadata>>
    /\ UNCHANGED <<Inputs, page, served, okPages>>

\* reply request answered 200 with n items and, if link, a next link
ReplyOK ==
    /\ pc = "replies"
    /\ \E n \in 0..(MaxReplies - rserved), link \in BOOLEAN :
        /\ link => rurl < MaxPages
        /\ last' = Request("reply", batch[idx], rurl, 200, n, link)
        /\ LET acc == replies \o Value(rserved, n)
               nxt == NextLink(rurl, link)
           IN  IF LimitReached(acc, max_replies_per_message)
               THEN AfterReplies(Truncate(acc, max_replies_per_message), rurl)
               ELSE IF nxt = 0
                    THEN AfterReplies(acc, nxt)
                    ELSE /\ replies' = acc
                         /\ rurl' = nxt
                         /\ rserved' = rserved + n
                         /\ UNCHANGED <<pc, url, messages, thread_files,
                                        total_replies, batch, next_link, idx,
                                        disk, metadata>>
    /\ UNCHANGED <<Inputs, page, served, okPages>>

Next ==
    \/ ChannelRateLimited
    \/ ChannelError
    \/ ChannelNetworkError
    \/ ChannelOK
    \/ ReplyRateLimited
    \/ Reply404
    \/ ReplyError
    \/ ReplyNetworkError
    \/ ReplyOK

Spec == Init /\ [][Next /\ UNCHANGED <<tvars, rvars>>]_vars

\* export_messages has returned: the folder, or None
Terminated == pc \in {"done", "failed"}

\* the request of this step is answered otherwise than by 429: the iteration
\* of the loop that sent it does not "continue" at the same cursor
Answered == last'.status # 429

\* The run goes on as long as a loop is running (every request blocks until
\* its response or its exception), and no cursor is answered 429 for ever:
\* weak fairness of the steps of Next that are answered otherwise than by
\* 429.  Such a step is possible exactly as long as the function has not
\* returned, so that WF_vars(Next /\ Answered) is written here as
SpecLive == Spec /\ ([]<>Terminated \/ []<><<Answered>>_vars)

----------------------------------------------------------------------------
\* create_threads.py and convert_thread_to_markdown
\*
\* A message is a record [id, replyToId, createdDateTime].  The functions
\* handle references to the dicts of the input list; a message is named here
\* by its position in tmsgs.  createdDateTime is a string, compared as Python
\* compares strings; a string is a sequence of character codes and <<>> is ''.

Timestamps == {<<>>, <<1>>, <<2>>}

\* the ids a replyToId can hold besides None: 0 stands for a false value
\* such as '', MaxMsgs + 1 is the id of no message
Refs == {None} \cup 0..(MaxMsgs + 1)

\* the flat list of n messages with the parent references and timestamps f;
\* identifiers are unique
MessageList(n, f) ==
    [i \in 1..n |-> [id |-> i, replyToId |-> f[i][1], createdDateTime |-> f[i][2]]]

\* a < b on strings
RECURSIVE StrLess(_, _)
StrLess(a, b) ==
    IF b = <<>> THEN FALSE
    ELSE IF a = <<>> THEN TRUE
    ELSE IF Head(a) # Head(b) THEN Head(a) < Head(b)
    ELSE StrLess(Tail(a), Tail(b))

\* x.get('createdDateTime', '')
Key(msgs, p) == msgs[p].createdDateTime

\* mutant: the list is left in the order it has
Sorted_asGiven(msgs, ps) == ps

\* sorted(ps, key=createdDateTime): ascending and stable
RECURSIVE Sorted(_, _)
Sorted(msgs, ps) ==
    IF ps = <<>> THEN <<>>
    ELSE LET n    == Len(ps)
             x    == ps[n]
             rest == Sorted(msgs, SubSeq(ps, 1, n - 1))
             \* x goes behind every element whose key is not greater
             k    == Cardinality({j \in 1..Len(rest) :
                                    ~StrLess(Key(msgs, x), Key(msgs, rest[j]))})
         IN  SubSeq(rest, 1, k) \o <<x>> \o SubSeq(rest, k + 1, Len(rest))

\* sorted(ps, key=createdDateTime, reverse=True): descending and stable
RECURSIVE SortedReverse(_, _)
SortedReverse(msgs, ps) ==
    IF ps = <<>> THEN <<>>
    ELSE LET n    == Len(ps)
             x    == ps[n]
             rest == SortedReverse(msgs, SubSeq(ps, 1, n - 1))
             k    == Cardinality({j \in 1..Len(rest) :
                                    ~StrLess(Key(msgs, rest[j]), Key(msgs, x))})
         IN  SubSeq(rest, 1, k) \o <<x>> \o SubSeq(rest, k + 1, Len(rest))

\* the loop of build_thread_tree from position i on
RECURSIVE BuildLoop(_, _, _, _)
BuildLoop(msgs, i, roots, byParent) ==
    IF i > Len(msgs) THEN [roots |-> roots, replies_by_parent |-> byParent]
    ELSE LET reply_to == msgs[i].replyToId
         IN  IF Truthy(reply_to)
             THEN LET sofar == IF reply_to \in DOMAIN byParent
                               THEN byParent[reply_to] ELSE <<>>
                  IN  BuildLoop(msgs, i + 1, roots,
                                (reply_to :> Append(sofar, i)) @@ byParent)
             ELSE BuildLoop(msgs, i + 1, Append(roots, i), byParent)

\* mutant: a reply whose parent is not in the list is dropped
build_thread_tree_knownParents(msgs) ==
    LET t == BuildLoop(msgs, 1, <<>>, <<>>)
        known == {pid \in DOMAIN t.replies_by_parent : pid \in 1..Len(msgs)}
    IN  [roots |-> t.roots,
         replies_by_parent |-> [pid \in known |-> t.replies_by_parent[pid]]]

\* mutant: the child lists are sorted when the tree is built
build_thread_tree_sorted(msgs) ==
    LET t == BuildLoop(msgs, 1, <<>>, <<>>)
    IN  [roots |-> t.roots,
         replies_by_parent |-> [pid \in DOMAIN t.replies_by_parent |->
                                   Sorted(msgs, t.replies_by_parent[pid])]]

\* build_thread_tree: the roots and the mapping (msg_by_id is not used by main)
\* mutant: a reply whose parent is not in the list starts a thread of its own
build_thread_tree_orphansAsRoots(msgs) ==
    LET t == BuildLoop(msgs, 1, <<>>, <<>>)
        known == {pid \in DOMAIN t.replies_by_parent : pid \in 1..Len(msgs)}
        isRoot(i) == ~Truthy(msgs[i].replyToId) \/ msgs[i].replyToId \notin 1..Len(msgs)
    IN  [roots |-> SelectSeq([i \in 1..Len(msgs) |-> i], isRoot),
         replies_by_parent |-> [pid \in known |-> t.replies_by_parent[pid]]]

build_thread_tree(msgs) == BuildLoop(msgs, 1, <<>>, <<>>)

RECURSIVE Flatten(_)
Flatten(ss) == IF ss = <<>> THEN <<>> ELSE Head(ss) \o Flatten(Tail(ss))

\* mutant: the replies are formatted at the indent of their parent
RECURSIVE format_thread_flat(_, _, _, _)
format_thread_flat(msgs, p, byParent, indent) ==
    LET msg_id == msgs[p].id
        own    == <<[msg |-> p, indent |-> indent]>>
    IN  IF msg_id \in DOMAIN byParent
        THEN LET rs == Sorted(msgs, byParent[msg_id])
             IN  own \o Flatten([j \in 1..Len(rs) |->
                        format_thread_flat(msgs, rs[j], byParent, indent)])
        ELSE own

\* format_thread: the messages formatted, each with its indent, in output order
RECURSIVE format_thread(_, _, _, _)
format_thread(msgs, p, byParent, indent) ==
    LET msg_id == msgs[p].id
        own    == <<[msg |-> p, indent |-> indent]>>
    IN  IF msg_id \in DOMAIN byParent
        THEN LET rs == Sorted(msgs, byParent[msg_id])
             IN  own \o Flatten([j \in 1..Len(rs) |->
                        format_thread(msgs, rs[j], byParent, indent + 1)])
        ELSE own

\* convert_thread_to_markdown: the "Reply idx" sections, in output order
convert_thread_to_markdown(msgs, message, rs) ==
    IF rs # <<>>
    THEN LET sorted_replies == Sorted(msgs, rs)
         IN  [j \in 1..Len(sorted_replies) |-> [idx |-> j, reply |-> sorted_replies[j]]]
    ELSE <<>>

\* export_messages is idle while create_threads runs
ExportIdle ==
    /\ max_messages = None /\ fetch_replies = FALSE
    /\ max_replies_per_message = None /\ pc = "idle" /\ url = 0 /\ page = 0
    /\ messages = <<>> /\ thread_files = <<>> /\ total_replies = 0
    /\ batch = <<>> /\ next_link = 0 /\ idx = 0 /\ rurl = 0 /\ replies = <<>>
    /\ disk = <<>> /\ metadata = <<>> /\ served = 0 /\ rserved = 0
    /\ last = Request("none", 0, 0, 0, 0, FALSE) /\ okPages = 0

InitThreads ==
    /\ \E n \in 0..MaxMsgs : \E f \in [1..n -> Refs \X Timestamps] :
          tmsgs = MessageList(n, f)
    /\ tpc = "input"
    /\ root_messages = <<>>
    /\ replies_by_parent = <<>>
    /\ threads = <<>>
    /\ markdown = <<>>
    /\ ExportIdle
    /\ RenderIdle

\* main of create_threads: root_messages, replies_by_parent, _ = build_thread_tree(messages)
BuildThreadTree ==
    /\ tpc = "input"
    /\ LET t == build_thread_tree(tmsgs)
       IN  /\ root_messages' = t.roots
           /\ replies_by_parent' = t.replies_by_parent
    /\ tpc' = "built"
    /\ UNCHANGED <<tmsgs, threads, markdown>>

\* mutant: the child lists are sorted in place (list.sort) while rendering
FormatThreads_sortsInPlace ==
    /\ tpc = "built"
    /\ LET rs == SortedReverse(tmsgs, root_messages)
       IN  /\ root_messages' = rs
           /\ threads' = [i \in 1..Len(rs) |->
                            format_thread(tmsgs, rs[i], replies_by_parent, 0)]
    /\ replies_by_parent' = [pid \in DOMAIN replies_by_parent |->
                                Sorted(tmsgs, replies_by_parent[pid])]
    /\ tpc' = "rendered"
    /\ UNCHANGED <<tmsgs, markdown>>

\* main of create_threads: the roots newest first, format_thread of each
FormatThreads ==
    /\ tpc = "built"
    /\ LET rs == SortedReverse(tmsgs, root_messages)
       IN  /\ root_messages' = rs
           /\ threads' = [i \in 1..Len(rs) |->
                            format_thread(tmsgs, rs[i], replies_by_parent, 0)]
    /\ tpc' = "rendered"
    /\ UNCHANGED <<tmsgs, replies_by_parent, markdown>>

\* convert_thread_to_markdown(message, replies), the list being a message
\* followed by its replies as fetch_message_replies returned them
ConvertThread ==
    /\ tpc = "input"
    /\ Len(tmsgs) >= 1
    /\ markdown' = convert_thread_to_markdown(tmsgs, 1, [j \in 1..(Len(tmsgs) - 1) |-> j + 1])
    /\ tpc' = "converted"
    /\ UNCHANGED <<tmsgs, root_messages, replies_by_parent, threads>>

\* format_thread of every root a second time, with the same mapping
FormatThreadsAgain ==
    /\ tpc = "rendered"
    /\ threads' = [i \in 1..Len(root_messages) |->
                      format_thread(tmsgs, root_messages[i], replies_by_parent, 0)]
    /\ tpc' = "rendered2"
    /\ UNCHANGED <<tmsgs, root_messages, replies_by_parent, markdown>>

\* convert_thread_to_markdown a second time, with the same message and replies
ConvertThreadAgain ==
    /\ tpc = "converted"
    /\ markdown' = convert_thread_to_markdown(tmsgs, 1, [j \in 1..(Len(tmsgs) - 1) |-> j + 1])
    /\ tpc' = "converted2"
    /\ UNCHANGED <<tmsgs, root_messages, replies_by_parent, threads>>

NextThreads ==
    \/ BuildThreadTree
    \/ FormatThreads
    \/ ConvertThread
    \/ FormatThreadsAgain
    \/ ConvertThreadAgain

SpecThreads == InitThreads /\ [][NextThreads /\ UNCHANGED <<evars, rvars>>]_vars

----------------------------------------------------------------------------
\* Rendering of one message: parse_html_content and format_message of
\* create_threads.py, strip_html, format_datetime and the head of
\* convert_thread_to_markdown of teams_exporter.py
\*
\* A string is a sequence of tokens: a tag, an entity, a white-space
\* character or a piece of text without any of these.  <<>> is ''.

BreakTags  == {"<br>", "<br/>"}
OtherTags  == {"<b>"}
Entities   == {"&nbsp;", "&lt;", "&gt;", "&amp;", "&quot;"}
WhiteSpace == {" ", "\n"}
Words      == {"Line1", "Line2", "end"}

\* re.sub(r'<br\s*/?>', '\n', s)
BreakTagsToNewlines(s) ==
    [i \in 1..Len(s) |-> IF s[i] \in BreakTags THEN "\n" ELSE s[i]]

\* re.sub(r'<[^>]+>', '', s)
RemoveTags(s) == SelectSeq(s, LAMBDA t : t \notin BreakTags \cup OtherTags)

\* the replacements of parse_html_content: &nbsp; &lt; &gt; &amp;
DecodeFour(t) ==
    CASE t = "&nbsp;" -> " "
      [] t = "&lt;"   -> "<"
      [] t = "&gt;"   -> ">"
      [] t = "&amp;"  -> "&"
      [] OTHER        -> t

\* the replacements of strip_html: &nbsp; &lt; &gt; &amp; &quot;
DecodeFive(t) == IF t = "&quot;" THEN "\"" ELSE DecodeFour(t)

\* s.strip()
RECURSIVE Strip(_)
Strip(s) ==
    IF s = <<>> THEN <<>>
    ELSE IF Head(s) \in WhiteSpace THEN Strip(Tail(s))
    ELSE IF s[Len(s)] \in WhiteSpace THEN Strip(SubSeq(s, 1, Len(s) - 1))
    ELSE s

\* re.sub(r'\s+', ' ', s)
RECURSIVE CollapseWhiteSpace(_)
CollapseWhiteSpace(s) ==
    IF s = <<>> THEN <<>>
    ELSE IF Head(s) \in WhiteSpace
         THEN IF Len(s) > 1 /\ s[2] \in WhiteSpace
              THEN CollapseWhiteSpace(Tail(s))
              ELSE <<" ">> \o CollapseWhiteSpace(Tail(s))
         ELSE <<Head(s)>> \o CollapseWhiteSpace(Tail(s))

\* s.split('\n')
RECURSIVE SplitLines(_)
SplitLines(s) ==
    IF \A i \in 1..Len(s) : s[i] # "\n" THEN <<s>>
    ELSE LET k == CHOOSE i \in 1..Len(s) :
                      s[i] = "\n" /\ \A j \in 1..(i - 1) : s[j] # "\n"
         IN  <<SubSeq(s, 1, k - 1)>> \o SplitLines(SubSeq(s, k + 1, Len(s)))

\* the lines that "if line.strip()" keeps
NonBlankLines(s) == SelectSeq(SplitLines(s), LAMBDA l : Strip(l) # <<>>)

\* a value that may be a string: [k |-> "absent" | "null" | "str", v |-> tokens];
\* "if not x" holds of None and ''
Falsy(x) == x.k # "str" \/ x.v = <<>>

\* parse_html_content(html_text)
parse_html_content(html_text) ==
    IF Falsy(html_text) THEN <<>>
    ELSE LET broken == BreakTagsToNewlines(html_text.v)
             bare   == RemoveTags(broken)
         IN  Strip([i \in 1..Len(bare) |-> DecodeFour(bare[i])])

\* strip_html(html_content)
strip_html(html_content) ==
    IF Falsy(html_content) THEN <<>>
    ELSE LET bare == RemoveTags(html_content.v)
         IN  Strip(CollapseWhiteSpace([i \in 1..Len(bare) |-> DecodeFive(bare[i])]))

----------------------------------------------------------------------------
\* One message and its two renderers

Absent   == [k |-> "absent", v |-> <<>>]
Null     == [k |-> "null", v |-> <<>>]
Str(s)   == [k |-> "str", v |-> s]

\* what an f-string prints for a value that is a string or None
Show(x) == IF x.k = "str" THEN x.v ELSE <<"None">>

\* createdDateTime as the Graph API writes it, without a zone, and a text
\* that is no ISO 8601 timestamp
IsoZ        == <<"2024-01-01", "T", "10:00", ":00", "Z">>
IsoLocal    == <<"2024-01-01", "T", "10:00", ":00">>
NotIso      == <<"yesterday">>
CreatedValues == {Absent, Null, Str(<<>>), Str(IsoZ), Str(IsoLocal), Str(NotIso)}

\* s.replace('Z', '+00:00')
ReplaceZ(s) == [i \in 1..Len(s) |-> IF s[i] = "Z" THEN "+00:00" ELSE s[i]]

\* datetime.fromisoformat(s) returns a datetime; otherwise it raises ValueError
ParsesAsIso(s) ==
    /\ Len(s) \in {4, 5}
    /\ s[1] = "2024-01-01" /\ s[2] = "T" /\ s[3] = "10:00" /\ s[4] = ":00"
    /\ Len(s) = 5 => s[5] = "+00:00"

\* the field 'from': absent, null, {} or an object whose 'user' is absent,
\* null, {} or an object whose 'displayName' is absent, null or a string
FromValue(k, userk, name) == [k |-> k, user |-> [k |-> userk, displayName |-> name]]
FromValues ==
    {FromValue(k, "absent", Absent) : k \in {"absent", "null", "empty"}}
    \cup {FromValue("dict", userk, Absent) : userk \in {"absent", "null", "empty"}}
    \cup {FromValue("dict", "dict", name) : name \in {Absent, Null, Str(<<"Ann">>)}}

SubjectValues == {Absent, Null, Str(<<>>), Str(<<"Hi">>)}

\* the field 'body': absent, null or an object with 'contentType' and 'content'
BodyValue(k, contentType, content) ==
    [k |-> k, contentType |-> contentType, content |-> content]
ContentTypes == {Absent, Str(<<"text">>), Str(<<"html">>)}
Tokens == BreakTags \cup OtherTags \cup Entities \cup WhiteSpace \cup Words
ScenarioBody == <<"Line1", "<br>", "Line2", "&nbsp;", "end">>
Bodies == UNION {[1..n -> Tokens] : n \in 0..MaxBodyLen}

\* the messages rendered: every combination of the kinds of the fields, and
\* a message with every body text
Messages ==
    [from : FromValues, subject : SubjectValues, createdDateTime : CreatedValues,
     body : {BodyValue("absent", Absent, Absent), BodyValue("null", Absent, Absent)}
            \cup {BodyValue("dict", ct, c) : ct \in ContentTypes,
                                             c \in {Absent, Null, Str(ScenarioBody)}}]
    \cup
    [from : {FromValue("dict", "dict", Str(<<"Ann">>))}, subject : {Str(<<"Hi">>)},
     createdDateTime : {Str(IsoZ)},
     body : {BodyValue("dict", ct, Str(s)) : ct \in ContentTypes, s \in Bodies}]

\* the outcome of a renderer
Raised == [raised |-> TRUE, author |-> <<>>, timestamp |-> <<>>,
           heading |-> <<>>, body |-> <<>>]
Rendered(author, timestamp, heading, body) ==
    [raised |-> FALSE, author |-> author, timestamp |-> timestamp,
     heading |-> heading, body |-> body]

\* format_datetime(iso_datetime): any exception gives the argument back
format_datetime(iso_datetime) ==
    IF iso_datetime.k = "str" /\ ParsesAsIso(ReplaceZ(iso_datetime.v))
    THEN Str(<<iso_datetime.v[1], " ", iso_datetime.v[3], iso_datetime.v[4], " UTC">>)
    ELSE iso_datetime

\* msg.get(key, '') : the default stands for an absent key only
GetOrEmpty(x) == IF x.k = "absent" THEN Str(<<>>) ELSE x

\* "  " * indent
IndentStr(indent) == [i \in 1..indent |-> "  "]

\* format_message(msg, indent)
format_message(msg, indent) ==
    LET created == GetOrEmpty(msg.createdDateTime)
        user    == msg.from.user
        author  ==
            IF msg.from.k # "dict" THEN <<"Unknown">>
            ELSE IF user.k # "dict" THEN <<"System">>
            ELSE IF user.displayName.k = "absent" THEN <<"Unknown">>
            ELSE Show(user.displayName)
        subject == IF Falsy(msg.subject) THEN <<>> ELSE msg.subject.v
        content_type == IF msg.body.k = "absent" \/ msg.body.contentType.k = "absent"
                        THEN Str(<<"text">>) ELSE msg.body.contentType
        raw     == IF msg.body.k = "absent" THEN Str(<<>>)
                   ELSE GetOrEmpty(msg.body.content)
        content == IF content_type = Str(<<"html">>)
                   THEN Str(parse_html_content(raw)) ELSE raw
        lines   == IF Falsy(content) THEN <<>>
                   ELSE LET kept == NonBlankLines(content.v)
                        IN  [i \in 1..Len(kept) |-> IndentStr(indent) \o kept[i]]
    IN  IF ~Falsy(created) /\ ~ParsesAsIso(ReplaceZ(created.v))
        THEN Raised            \* ValueError of fromisoformat, not caught
        ELSE IF msg.body.k = "null"
        THEN Raised            \* AttributeError: None has no get
        ELSE Rendered(author,
                      IF Falsy(created) THEN <<"Unknown time">>
                      ELSE <<created.v[1], " ", created.v[3]>>,
                      IF subject # <<>> /\ indent = 0 THEN subject ELSE <<>>,
                      lines)

\* convert_thread_to_markdown(message, replies) up to the body of the message
convert_message(message) ==
    LET user   == message.from.user
        author == IF message.from.k # "dict" \/ user.k # "dict"
                     \/ user.displayName.k = "absent"
                  THEN <<"Unknown">> ELSE Show(user.displayName)
        created == format_datetime(GetOrEmpty(message.createdDateTime))
        subject == IF Falsy(message.subject) THEN <<"(No Subject)">>
                   ELSE message.subject.v
        body_html == IF message.body.k # "dict" THEN Str(<<>>)
                     ELSE GetOrEmpty(message.body.content)
        body   == strip_html(body_html)
    IN  Rendered(author, Show(created), subject, SplitLines(body))

\* the state in which the other two parts of the model do not run
OthersIdle == ThreadsIdle /\ ExportIdle

InitRender ==
    /\ rmsg \in Messages
    /\ rpc = "input"
    /\ rout = <<>>
    /\ OthersIdle

\* create_threads: format_message of a root (indent 0) or of a reply
FormatMessage ==
    /\ rpc = "input"
    /\ \E indent \in 0..1 : rout' = format_message(rmsg, indent)
    /\ rpc' = "formatted"
    /\ UNCHANGED rmsg

\* teams_exporter: convert_thread_to_markdown of the message
ConvertMessage ==
    /\ rpc = "input"
    /\ rout' = convert_message(rmsg)
    /\ rpc' = "converted"
    /\ UNCHANGED rmsg

NextRender ==
    \/ FormatMessage
    \/ ConvertMessage

SpecRender == InitRender /\ [][NextRender /\ UNCHANGED <<evars, tvars>>]_vars

----------------------------------------------------------------------------
\* Properties of export_messages / fetch_message_replies (Spec)

NoDuplicates(seq) == \A i, j \in 1..Len(seq) : seq[i] = seq[j] => i = j

\* C1: a 429 response is followed by a request for the same cursor of the
\* same collection, the step that receives a 429 changes neither accumulator
\* and writes nothing to the export folder, and no item is ever held twice.
C1_SameCursor ==
    last.status = 429 =>
        /\ last'.kind = last.kind
        /\ last'.msg = last.msg
        /\ last'.cursor = last.cursor

C1_NothingAdded ==
    (last'.status = 429 /\ last'.kind # "none") =>
        /\ UNCHANGED <<messages, replies, thread_files, total_replies, disk,
                       metadata, url, rurl, served, rserved>>

C1_NoItemTwice ==
    /\ NoDuplicates(messages)
    /\ NoDuplicates(replies)
    /\ NoDuplicates(thread_files)
    /\ \A m \in DOMAIN disk : NoDuplicates(disk[m])

C1_RetryAtSameCursor ==
    /\ []C1_NoItemTwice
    /\ [][C1_SameCursor /\ C1_NothingAdded]_vars

\* a second page of replies is being retried after two retried channel requests
C1_Witness ==
    /\ page - okPages >= 2
    /\ messages # <<>>
    /\ last.kind = "reply" /\ last.status = 429 /\ last.cursor = 2
    /\ replies # <<>>

\* C2: under a cap N >= 1 that the collection reaches, a fetch that completes
\* holds exactly N items and the page on which the accumulator first reached
\* N was the last one requested, whether or not it carried a next link.  For
\* the channel: at the end of the run.  For the replies of one message: in
\* the step in which fetch_message_replies returns.
C2_ChannelCap ==
    (pc = "done" /\ Truthy(max_messages) /\ served >= max_messages) =>
        /\ Len(messages) = max_messages
        /\ metadata[1].message_count = max_messages
        /\ served - Len(batch) < max_messages

\* a 200 response ends the fetch of the replies of batch[idx]
ReplyFetchCompletes ==
    /\ pc = "replies"
    /\ last'.kind = "reply" /\ last'.status = 200
    /\ thread_files' # thread_files

\* a 200 response is followed by a request for the next page of replies
ReplyFetchGoesOn ==
    /\ pc = "replies" /\ pc' = "replies"
    /\ idx' = idx /\ rurl' # rurl

C2_ReplyCap ==
    Truthy(max_replies_per_message) =>
        /\ (ReplyFetchCompletes /\ rserved + last'.n >= max_replies_per_message) =>
              /\ Len(disk'[batch[idx]]) = max_replies_per_message
              /\ rserved < max_replies_per_message
        /\ ReplyFetchGoesOn => Len(replies') < max_replies_per_message

C2_ExactlyCapAndStop ==
    /\ []C2_ChannelCap
    /\ [][C2_ReplyCap]_vars

\* both caps cut a page that held more and that carried a next link
C2_Witness ==
    /\ pc = "done"
    /\ max_messages = 1 /\ served = 2 /\ next_link # 0
    /\ fetch_replies /\ max_replies_per_message = 1
    /\ last.kind = "reply" /\ last.status = 200 /\ last.n = 2 /\ last.link
    /\ Len(disk[2]) = 1

\* The latest request asked for replies and was answered with one of the
\* statuses: fetch_message_replies returned [], the document of that
\* message is written without replies, and the run goes on with the next
\* message of the page, else with the next page, else with the metadata.
ReplyFailureTolerated(statuses) ==
    (last.kind = "reply" /\ last.status \in statuses) =>
        /\ last.msg \in DOMAIN disk
        /\ disk[last.msg] = <<>>
        /\ thread_files # <<>>
        /\ thread_files[Len(thread_files)] = last.msg
        /\ IF last.msg # batch[Len(batch)]
           THEN /\ pc = "replies"
                /\ batch[idx] = last.msg + 1
                /\ rurl = 1
                /\ replies = <<>>
           ELSE IF next_link # 0 /\ ~LimitReached(Value(0, served), max_messages)
                THEN pc = "fetch" /\ url = next_link
                ELSE /\ pc = "done"
                     /\ \E i \in 1..Len(metadata[1].thread_files) :
                            metadata[1].thread_files[i] = last.msg

\* C3: a 404 answer to a reply request makes fetch_message_replies return
\* the empty list; export_messages writes the document of that message and
\* goes on with the remaining messages and pages.
C3_NotFoundIsNoReplies == ReplyFailureTolerated({404})

\* the replies of the last message of a page were not found and the run
\* goes on with the next page
C3_Witness ==
    /\ last.kind = "reply" /\ last.status = 404
    /\ pc = "fetch" /\ url = 2
    /\ Len(thread_files) = 1

\* C7: a channel page request answered with a status other than 200 and 429,
\* or failing on the network, ends export_messages with None: no request
\* follows and no metadata is written.
C7_Aborted ==
    /\ (last.kind = "channel" /\ last.status \notin {200, 429}) => pc = "failed"
    /\ pc = "failed" =>
          /\ last.kind = "channel" /\ last.status \notin {200, 429}
          /\ metadata = <<>>

C7_ChannelFailureAborts ==
    /\ []C7_Aborted
    /\ [][pc # "failed"]_vars

\* the second page fails on the network after the first was processed
C7_Witness ==
    /\ pc = "failed"
    /\ last.status = 0 /\ last.cursor = 2
    /\ thread_files # <<>>

\* C8 as stated: every run that has ended has persisted a metadata record.
C8_MetadataOnEveryPath ==
    pc \in {"done", "failed"} => Len(metadata) >= 1

\* C8 amended: a run that returns the export folder has persisted the
\* metadata record of its counts and document names; a run that a channel
\* fetch failure ends has persisted none.
C8_MetadataWhenLoopCompletes ==
    /\ pc = "done" =>
          metadata = <<MetadataRecord(messages, thread_files, total_replies, page)>>
    /\ pc = "failed" => metadata = <<>>

\* a completed run with replies, counted in its metadata
C8_Witness ==
    /\ pc = "done"
    /\ metadata[1].message_count = 2
    /\ metadata[1].reply_count >= 1
    /\ Len(metadata[1].thread_files) = 2

\* C9: the metadata index is written at most once, exactly once in a run
\* that completes, and no document is written after it.
C9_AtMostOnce ==
    /\ Len(metadata) <= 1
    /\ pc = "done" => Len(metadata) = 1

C9_MetadataOnceAndLast ==
    /\ []C9_AtMostOnce
    /\ [][metadata # <<>> => (disk' = disk /\ thread_files' = thread_files)]_vars

\* a run of two pages has completed
C9_Witness ==
    /\ pc = "done"
    /\ okPages = 2
    /\ Len(thread_files) = 2
    /\ Len(metadata) = 1

\* C10: a reply request that fails on the network or is answered with a
\* status other than 200, 404 and 429 yields no replies for that message
\* only; the run is never ended by a reply request, and whenever it asks for
\* a channel page or has completed, every message received has its document.
C10_RunGoesOn ==
    /\ pc = "failed" => last.kind = "channel"
    /\ pc \in {"fetch", "done"} => thread_files = Value(0, served)

C10_ReplyFailureIsolated ==
    /\ ReplyFailureTolerated({0} \cup OtherStatuses)
    /\ C10_RunGoesOn

\* the second page of replies of the first of two messages failed
C10_Witness ==
    /\ last.kind = "reply" /\ last.status = 500 /\ last.cursor = 2
    /\ last.msg = 1
    /\ pc = "replies" /\ idx = 2

\* C11: a 401 answer, to a channel page request or to a reply request, ends
\* the run with a failure.
C11_ExpiredCredentialAborts ==
    last.status = 401 => pc = "failed"

\* C13: pages_fetched in the metadata is the number of channel page requests
\* that were answered 200.
C13_PagesFetchedCountsPages ==
    pc = "done" => metadata[1].pages_fetched = okPages

\* C17: a run requests at least one page before it consults the cap, and
\* max_messages = 0 is a cap: the run keeps no message and stops after the
\* first page answered 200.
C17_ZeroCapHonoured ==
    pc = "done" =>
        /\ okPages >= 1
        /\ max_messages = 0 => (messages = <<>> /\ okPages = 1)

\* C18: with reply fetching, the documents of all earlier messages are
\* written whenever replies or a page are requested, and no step, the one
\* that ends the run with a failure included, removes or rewrites a document.
C18_WrittenBeforeNextRequest ==
    fetch_replies =>
        /\ pc = "replies" => DOMAIN disk = 1..(batch[idx] - 1)
        /\ pc \in {"fetch", "failed", "done"} => DOMAIN disk = 1..served

C18_DocumentsKept ==
    \A m \in DOMAIN disk : m \in DOMAIN disk' /\ disk'[m] = disk[m]

C18_PartialProgressStays ==
    /\ []C18_WrittenBeforeNextRequest
    /\ [][C18_DocumentsKept]_vars

\* two documents, one with replies, are on disk when the second page fails
C18_Witness ==
    /\ pc = "failed"
    /\ fetch_replies
    /\ DOMAIN disk = {1, 2}
    /\ disk[1] # <<>>
    /\ thread_files = <<1, 2>>

RECURSIVE RepliesOf(_)
RepliesOf(msgs) ==
    IF msgs = <<>> THEN 0 ELSE Len(disk[Head(msgs)]) + RepliesOf(Tail(msgs))

\* C19: in a completed run the metadata lists one document per retained
\* message, every listed document is that of a retained message, and
\* reply_count is the number of replies of the retained messages.
C19_MetadataMatchesDocuments ==
    pc = "done" =>
        LET md == metadata[1]
        IN  /\ Len(md.thread_files) = md.message_count
            /\ \A i \in 1..Len(md.thread_files) :
                  \E j \in 1..Len(messages) : messages[j] = md.thread_files[i]
            /\ md.reply_count = RepliesOf(messages)

----------------------------------------------------------------------------
\* Properties of build_thread_tree, format_thread and
\* convert_thread_to_markdown (SpecThreads)

Occurrences(seq, x) == Cardinality({i \in 1..Len(seq) : seq[i] = x})

\* x is emitted before y when both are replies to the same parent
MustPrecede(x, y) ==
    \/ StrLess(Key(tmsgs, x), Key(tmsgs, y))
    \/ Key(tmsgs, x) = Key(tmsgs, y) /\ x < y

\* C4: build_thread_tree puts every message in exactly one place, the roots
\* when its replyToId is false and the child list keyed by its replyToId
\* otherwise, and the roots keep their relative order.
C4_Partition ==
    tpc = "built" =>
        /\ \A i \in 1..Len(tmsgs) :
              LET r == tmsgs[i].replyToId
                  elsewhere == DOMAIN replies_by_parent \ {r}
              IN  /\ \A pid \in elsewhere :
                        Occurrences(replies_by_parent[pid], i) = 0
                  /\ IF Truthy(r)
                     THEN /\ Occurrences(root_messages, i) = 0
                          /\ r \in DOMAIN replies_by_parent
                          /\ Occurrences(replies_by_parent[r], i) = 1
                     ELSE /\ Occurrences(root_messages, i) = 1
                          /\ r \notin DOMAIN replies_by_parent
        /\ \A a, b \in 1..Len(root_messages) :
              a < b => root_messages[a] < root_messages[b]

\* a root, a reply to it and a reply to a message that is absent
C4_Witness ==
    /\ tpc = "built"
    /\ Len(tmsgs) = 3
    /\ root_messages = <<2>>
    /\ DOMAIN replies_by_parent = {2, MaxMsgs + 1}
    /\ replies_by_parent[2] = <<3>>
    /\ replies_by_parent[MaxMsgs + 1] = <<1>>

\* the replies of every formatted message of a thread are all formatted, in
\* ascending createdDateTime order, equal timestamps in input order
ThreadInOrder(out) ==
    /\ \A a, b \in 1..Len(out) :
          LET x == out[a].msg
              y == out[b].msg
          IN  ( /\ Truthy(tmsgs[x].replyToId)
                /\ tmsgs[x].replyToId = tmsgs[y].replyToId
                /\ MustPrecede(x, y) ) => a < b
    /\ \A a \in 1..Len(out) : \A c \in 1..Len(tmsgs) :
          tmsgs[c].replyToId = tmsgs[out[a].msg].id =>
              \E b \in 1..Len(out) : out[b].msg = c /\ b > a

\* C5: format_thread and convert_thread_to_markdown emit the replies of a
\* parent in ascending createdDateTime order, equal timestamps in the order
\* of the input, whatever the input order.
C5_RepliesInTimeOrder ==
    /\ tpc = "rendered" => \A t \in 1..Len(threads) : ThreadInOrder(threads[t])
    /\ tpc = "converted" =>
          /\ Len(markdown) = Len(tmsgs) - 1
          /\ \A j \in 1..Len(markdown) :
                /\ markdown[j].idx = j
                /\ markdown[j].reply \in 2..Len(tmsgs)
          /\ \A j, k \in 1..Len(markdown) :
                MustPrecede(markdown[j].reply, markdown[k].reply) => j < k

\* the later of two replies to the root comes first in the input
C5_Witness ==
    /\ tpc = "rendered"
    /\ Len(tmsgs) = 3
    /\ tmsgs[2].replyToId = 1 /\ tmsgs[3].replyToId = 1
    /\ StrLess(Key(tmsgs, 3), Key(tmsgs, 2))
    /\ Len(threads) = 1
    /\ threads[1] = <<[msg |-> 1, indent |-> 0], [msg |-> 3, indent |-> 1],
                      [msg |-> 2, indent |-> 1]>>

\* C6 as stated: every child list of the mapping that build_thread_tree
\* returns is in ascending createdDateTime order.
C6_MappingInTimeOrder ==
    tpc = "built" =>
        \A pid \in DOMAIN replies_by_parent :
            LET l == replies_by_parent[pid]
            IN  \A j, k \in 1..Len(l) :
                    j < k => ~StrLess(Key(tmsgs, l[k]), Key(tmsgs, l[j]))

\* C6 amended: every child list of the mapping holds the direct children of
\* its parent id in the order of the input; format_thread leaves the mapping
\* as it is and sorts the children when it renders them.
C6_MappingInInputOrder ==
    /\ tpc \in {"built", "rendered"} =>
          \A pid \in DOMAIN replies_by_parent :
              LET l == replies_by_parent[pid]
              IN  /\ l # <<>>
                  /\ \A j, k \in 1..Len(l) : j < k => l[j] < l[k]
                  /\ {l[j] : j \in 1..Len(l)} =
                        {i \in 1..Len(tmsgs) : tmsgs[i].replyToId = pid}
    /\ tpc = "rendered" =>
          \A t \in 1..Len(threads) : \A a, b \in 1..Len(threads[t]) :
              ( /\ threads[t][a].indent = threads[t][b].indent
                /\ tmsgs[threads[t][a].msg].replyToId = tmsgs[threads[t][b].msg].replyToId
                /\ StrLess(Key(tmsgs, threads[t][a].msg), Key(tmsgs, threads[t][b].msg)) )
              => a < b

\* the child list of a parent holds the later reply first
C6_Witness ==
    /\ tpc = "built"
    /\ 1 \in DOMAIN replies_by_parent
    /\ replies_by_parent[1] = <<2, 3>>
    /\ StrLess(Key(tmsgs, 3), Key(tmsgs, 2))

\* message i names a parent that is not in the list
Orphan(i) ==
    /\ Truthy(tmsgs[i].replyToId)
    /\ \A j \in 1..Len(tmsgs) : tmsgs[j].id # tmsgs[i].replyToId

\* C14: a message whose parent is absent is kept in the mapping under the
\* parent id it names and is formatted in no thread.
C14_OrphanKeptNotRendered ==
    \A i \in 1..Len(tmsgs) : Orphan(i) =>
        /\ tpc \in {"built", "rendered"} =>
              /\ tmsgs[i].replyToId \in DOMAIN replies_by_parent
              /\ Occurrences(replies_by_parent[tmsgs[i].replyToId], i) = 1
              /\ Occurrences(root_messages, i) = 0
        /\ tpc = "rendered" =>
              \A t \in 1..Len(threads) : \A a \in 1..Len(threads[t]) :
                  threads[t][a].msg # i

\* a root with a reply, and a reply to a message that is absent
C14_Witness ==
    /\ tpc = "rendered"
    /\ Len(tmsgs) = 3
    /\ Orphan(1)
    /\ threads = << <<[msg |-> 2, indent |-> 0], [msg |-> 3, indent |-> 1]>> >>
    /\ MaxMsgs + 1 \in DOMAIN replies_by_parent
    /\ replies_by_parent[MaxMsgs + 1] = <<1>>

\* C16: a second rendering yields the output of the first, and rendering
\* changes neither the message records nor the parent-to-children mapping.
C16_SecondRenderingSame ==
    /\ (tpc = "rendered" /\ tpc' = "rendered2") => threads' = threads
    /\ (tpc = "converted" /\ tpc' = "converted2") => markdown' = markdown

C16_RenderingChangesNothing ==
    /\ tmsgs' = tmsgs
    /\ tpc \in {"built", "rendered"} => replies_by_parent' = replies_by_parent

RECURSIVE Hops(_, _)
Hops(i, fuel) ==
    LET r == tmsgs[i].replyToId
        parents == {j \in 1..Len(tmsgs) : tmsgs[j].id = r}
    IN  IF ~Truthy(r) THEN 0
        ELSE IF fuel = 0 \/ parents = {} THEN -1
        ELSE LET h == Hops(CHOOSE j \in parents : TRUE, fuel - 1)
             IN  IF h = -1 THEN -1 ELSE h + 1

\* the places <<thread, line>> at which message i is formatted
Places(i) ==
    {<<t, a>> \in (1..Len(threads)) \X (1..Len(tmsgs)) :
        a <= Len(threads[t]) /\ threads[t][a].msg = i}

\* C20: with unique identifiers, format_thread of every root returns, having
\* formatted every message that leads to a root through parent references
\* once, at an indent equal to the number of references, and no other
\* message; a message that replies to itself or lies on a cycle leads to no
\* root.
C20_EachReachableOnceAtDepth ==
    tpc = "rendered" =>
        /\ \A t \in 1..Len(threads) : Len(threads[t]) <= Len(tmsgs)
        /\ \A i \in 1..Len(tmsgs) :
              LET h == Hops(i, Len(tmsgs))
              IN  IF h = -1 THEN Places(i) = {}
                  ELSE /\ Cardinality(Places(i)) = 1
                       /\ \A pl \in Places(i) : threads[pl[1]][pl[2]].indent = h

\* a chain of two replies below a root
C20_Witness ==
    /\ tpc = "rendered"
    /\ Len(tmsgs) = 3
    /\ tmsgs[2].replyToId = 3 /\ tmsgs[3].replyToId = 1
    /\ threads = << <<[msg |-> 1, indent |-> 0], [msg |-> 3, indent |-> 1],
                      [msg |-> 2, indent |-> 2]>> >>

----------------------------------------------------------------------------
\* Termination of the fetch loops (SpecLive)

\* C21: when no cursor is answered 429 for ever and the chains of next links
\* are finite, export_messages returns: its loop ends, and so does every loop
\* of fetch_message_replies that it has entered.
C21_FetchLoopsTerminate == <>Terminated

\* the run has ended after a channel request answered 429 and a next link
\* followed, with reply lists fetched on the way
C21_Witness ==
    /\ pc = "done" /\ fetch_replies
    /\ page > okPages /\ okPages = 2
    /\ thread_files # <<>>

----------------------------------------------------------------------------
\* Properties of the renderers of one message (SpecRender)

RenderReturned == rpc \in {"formatted", "converted"}

\* C12: rendering a message never fails, in either renderer: whatever fields
\* are absent, null or malformed, the renderer returns output with the
\* sentinel of the field (author "Unknown" when there is no sender), and a
\* timestamp that cannot be parsed is emitted unchanged.
C12_RenderingNeverFails ==
    RenderReturned =>
        /\ ~rout.raised
        /\ rmsg.from.k \in {"absent", "null"} => rout.author = <<"Unknown">>
        /\ rmsg.createdDateTime = Str(NotIso) => rout.timestamp = NotIso

\* the text the markup stands for: line-break tags are line breaks, every
\* other tag is gone, the five entities are decoded
MarkupAsText(s) ==
    LET bare == RemoveTags(BreakTagsToNewlines(s))
    IN  [i \in 1..Len(bare) |-> DecodeFive(bare[i])]

\* the non-blank lines of a text, without indentation and surrounding blanks
TextLines(lines) ==
    LET kept == SelectSeq(lines, LAMBDA l : Strip(SelectSeq(l, LAMBDA t : t # "  ")) # <<>>)
    IN  [i \in 1..Len(kept) |-> Strip(SelectSeq(kept[i], LAMBDA t : t # "  "))]

\* C15: for a body tagged as markup, each renderer turns line-break tags into
\* line breaks, removes every other tag and decodes &nbsp; &lt; &gt; &amp;
\* &quot;, so that "Line1<br>Line2&nbsp;end" is rendered as the two lines
\* "Line1" and "Line2 end".
C15_MarkupNormalized ==
    (/\ RenderReturned /\ ~rout.raised
     /\ rmsg.body.k = "dict"
     /\ rmsg.body.contentType = Str(<<"html">>)
     /\ rmsg.body.content.k = "str")
    => /\ TextLines(rout.body) = TextLines(SplitLines(MarkupAsText(rmsg.body.content.v)))
       /\ rmsg.body.content.v = ScenarioBody
             => TextLines(rout.body) = << <<"Line1">>, <<"Line2", " ", "end">> >>

====
